---- MODULE Spec2Model ----
(***************************************************************************)
(* Model of skill/scripts/register.py, the self-registration tool of the   *)
(* iOS Simulator Skill.  The state is the filesystem (a map from paths to  *)
(* nodes), the command line of the running invocation, its position in     *)
(* main / register_claude_code / register_antigravity, and what it has     *)
(* printed, read and executed so far.  Each filesystem call of the script  *)
(* is one step; a call either completes or raises OSError, and an uncaught *)
(* exception ends the process with exit status 1.                          *)
(***************************************************************************)
EXTENDS Naturals, Sequences, FiniteSets

VARIABLES
    fs,        \* the filesystem: [existing paths -> node]
    pc,        \* position of the process ("idle" before the first run)
    file,      \* __file__ of the running script
    argv,      \* the command line: [register, target]
    args,      \* the parsed namespace: [register, target]
    stdout,    \* the texts printed by this run, in order
    reads,     \* the paths this run has read with read_text, in order
    steps,     \* the filesystem steps this run has entered, in order
    raised,    \* the step at which this run raised, or NoStep
    exitCode,  \* exit status of the run, read once pc = "exited"
    envFault,  \* TRUE when this run was refused by the environment
    pre,       \* the filesystem when this run was invoked
    prev,      \* what the run before this one was, for runs in succession
    nruns      \* number of invocations so far

vars == <<fs, pc, file, argv, args, stdout, reads, steps, raised, exitCode,
          envFault, pre, prev, nruns>>

\* Number of invocations of the tool in one behaviour.
MaxRuns == 2

-----------------------------------------------------------------------------
(* Paths (pathlib.Path) are sequences of names below the root <<>>.        *)

Join(p, name) == Append(p, name)

Parent(p) == SubSeq(p, 1, Len(p) - 1)

Prefix(p, i) == SubSeq(p, 1, i)

IsPrefix(p, q) == Len(p) <= Len(q) /\ SubSeq(q, 1, Len(p)) = p

Ancestors(p) == {Prefix(p, i) : i \in 0..Len(p)}

\* src relocated below dst, as copytree names the copies
Reloc(src, dst, q) == dst \o SubSeq(q, Len(src) + 1, Len(q))

(* Nodes: a directory, or a file holding a text (a sequence of lines).     *)
Dir == [kind |-> "dir", text |-> <<>>]

File(t) == [kind |-> "file", text |-> t]

Exists(f, p) == p \in DOMAIN f

IsDir(f, p) == p \in DOMAIN f /\ f[p].kind = "dir"

IsFile(f, p) == p \in DOMAIN f /\ f[p].kind = "file"

Subtree(f, p) == {q \in DOMAIN f : IsPrefix(p, q)}

\* every node but the root lies in a directory
WellFormed(f) ==
    /\ IsDir(f, <<>>)
    /\ \A p \in DOMAIN f : p # <<>> => IsDir(f, Parent(p))

-----------------------------------------------------------------------------
(* The filesystem calls the script makes: when each raises, and its effect *)

\* Path.mkdir(parents=True, exist_ok=True)
MkdirRaises(f, p) == \E a \in Ancestors(p) : IsFile(f, a)

MkdirDone(f, p) ==
    [q \in DOMAIN f \cup Ancestors(p) |-> IF q \in DOMAIN f THEN f[q] ELSE Dir]

\* Path.write_text(text): open(p, "w") then write
WriteRaises(f, p) == ~IsDir(f, Parent(p)) \/ IsDir(f, p)

\* the bug of opening the file for appending
WriteAppend(f, p, text) ==
    [q \in DOMAIN f \cup {p} |->
        IF q = p THEN File((IF IsFile(f, p) THEN f[p].text ELSE <<>>) \o text)
        ELSE f[q]]

WriteDone(f, p, text) ==
    [q \in DOMAIN f \cup {p} |-> IF q = p THEN File(text) ELSE f[q]]

\* Path.read_text() of an existing path
ReadRaises(f, p) == ~IsFile(f, p)

ReadDone(f, p) == f[p].text

\* shutil.rmtree(p) of an existing path
RmtreeRaises(f, p) == ~IsDir(f, p)

RmtreeDone(f, p) == [q \in DOMAIN f \ Subtree(f, p) |-> f[q]]

\* shutil.copytree(src, dst): dst must not exist, its parents are made
CopytreeRaises(f, src, dst) ==
    \/ ~IsDir(f, src)
    \/ Exists(f, dst)
    \/ MkdirRaises(f, Parent(dst))

CopyOf(f, src, dst, sub) ==
    LET g == MkdirDone(f, Parent(dst))
        new == {Reloc(src, dst, q) : q \in sub}
    IN  [q \in DOMAIN g \cup new |->
            IF q \in new
            THEN f[CHOOSE s \in sub : Reloc(src, dst, s) = q]
            ELSE g[q]]

\* the bug of copying one level only
CopytreeFlat(f, src, dst) ==
    CopyOf(f, src, dst, {q \in Subtree(f, src) : Len(q) <= Len(src) + 1})

CopytreeDone(f, src, dst) == CopyOf(f, src, dst, Subtree(f, src))

(* What a call refused by the environment (permission denied, disk full)   *)
(* can leave behind before it raises.                                      *)

\* some of the missing parents were made
MkdirPartial(f, p) ==
    {MkdirDone(f, a) : a \in {b \in Ancestors(p) : b # p /\ ~MkdirRaises(f, b)}}

\* nothing, or the file opened (created or truncated) and nothing written
WritePartial(f, p) ==
    {f} \cup (IF WriteRaises(f, p) THEN {} ELSE {WriteDone(f, p, <<>>)})

\* some of the tree removed, the directory itself still there
RmtreePartial(f, p) ==
    IF ~IsDir(f, p) THEN {f}
    ELSE {[q \in (DOMAIN f \ Subtree(f, p)) \cup k |-> f[q]] :
            k \in {k \in SUBSET Subtree(f, p) :
                        /\ p \in k
                        /\ \A q \in k : q # p => Parent(q) \in k}}

\* some of the tree copied
CopytreePartial(f, src, dst) ==
    IF CopytreeRaises(f, src, dst) THEN {f}
    ELSE {f} \cup
         {CopyOf(f, src, dst, sub) :
            sub \in {k \in SUBSET Subtree(f, src) :
                        /\ src \in k
                        /\ k # Subtree(f, src)
                        /\ \A q \in k : q # src => Parent(q) \in k}}

-----------------------------------------------------------------------------
(* The program's texts and names                                           *)

\* generate_antigravity_workflow(): the static workflow markdown (its first
\* lines, its section headers and its last lines)
generate_antigravity_workflow ==
    << "---",
       "description: Build, test, and automate iOS apps with semantic navigation.",
       "---",
       "",
       "# iOS Simulator Skill",
       "",
       "## Quick Start",
       "## Script Categories",
       "## Common Patterns",
       "## Examples for AI Agents",
       "## Safe Commands (Read-Only)",
       "## Requirements",
       "## Registration",
       "ios-sim --register         # Manual copy-paste" >>

\* generate_help_text(): the static help document
generate_help_text ==
    << "ios-simulator-skill - Self-Registration Guide",
       "",
       "Register this skill with AI development platforms:",
       "After registration, the skill is available for iOS automation tasks.",
       "Requirements:" >>

UsageText == << "usage: register.py [-h] [--register [PLATFORM]] [--target TARGET]" >>

McpLine1 == << "MCP server registration coming soon." >>

McpLine2 == << "For now, use --register code or --register agent" >>

MsgCreatedSkill == << "Created: <skill_dir>/SKILL.md" >>

MsgWarnSkill == << "Warning: SKILL.md not found" >>

MsgCreatedClaude == << "Created: <skill_dir>/CLAUDE.md" >>

MsgCopied == << "Copied: <skill_dir>/scripts" >>

MsgRegistered == << "", "Claude Code skill registered at: <skill_dir>" >>

MsgRestart == << "Restart Claude Code to load the skill." >>

MsgCreatedWorkflow == << "Created workflow: <workflow_file>" >>

MsgAllowlist == << "Added to auto-execute allowlist" >>

\* the choices of --register
Choices == {"none", "code", "agent", "help", "mcp"}

\* the bug of registering for the agent platform when no value is given
RegisterConstAgent == "agent"

\* --register with no value takes const
RegisterConst == "none"

\* args.register when the flag is not given
None == "<None>"

\* get_skill_dir(): two levels above the script
get_skill_dir(script) == Parent(Parent(script))

SkillFile(script) == Join(get_skill_dir(script), "SKILL.md")

\* the candidates of get_claude_content, in the order they are tried
ClaudeCandidates(script) ==
    << Join(get_skill_dir(script), "CLAUDE.md"),
       Join(Parent(get_skill_dir(script)), "CLAUDE.md") >>

NoPath == << "<no path>" >>

\* the bug of letting the last existing candidate win
ClaudeWinnerLast(f, script) ==
    LET c == ClaudeCandidates(script)
        found == {i \in 1..Len(c) : Exists(f, c[i])}
    IN  IF found = {} THEN NoPath
        ELSE c[CHOOSE i \in found : \A j \in found : i >= j]

\* the candidate get_claude_content returns from: the first that exists
ClaudeWinner(f, script) ==
    LET c == ClaudeCandidates(script)
        found == {i \in 1..Len(c) : Exists(f, c[i])}
    IN  IF found = {} THEN NoPath
        ELSE c[CHOOSE i \in found : \A j \in found : i <= j]

ScriptsSrc(script) == Join(get_skill_dir(script), "scripts")

\* skill_dir of register_claude_code
SkillDir(target) == target \o << ".claude", "skills", "ios-sim" >>

ScriptsDst(target) == Join(SkillDir(target), "scripts")

\* the bug of never removing the old copy
NeedsRmtreeNever(f, dst) == FALSE

\* the removal of the old copy is decided by scripts_dst.exists()
NeedsRmtree(f, dst) == Exists(f, dst)

\* the bug of writing where the module's docstring says
WorkflowDirAntigravity(target) == target \o << ".antigravity", "workflows" >>

\* workflow_dir and workflow_file of register_antigravity
WorkflowDir(target) == target \o << ".agent", "workflows" >>

WorkflowFile(target) == Join(WorkflowDir(target), "ios-simulator-skill.md")

-----------------------------------------------------------------------------
(* The inputs: where the script can be run from, the command lines, and the *)
(* filesystems a run can find.                                             *)

RepoSkill == << "repo", "skill" >>

Proj == << "proj" >>

Case1 == << "tmp", "case1" >>

\* the script in the checkout, the script moved beside the scripts tree,
\* and the copy a code-assistant registration installs in a project
RepoScript == RepoSkill \o << "scripts", "register.py" >>

BinScript == RepoSkill \o << "bin", "register.py" >>

InstalledScript == ScriptsDst(Proj) \o << "register.py" >>

ScriptFiles == {RepoScript, BinScript, InstalledScript}

Targets == {Proj, Case1}

\* the command line's --register: not given, given bare, or given a value
NoFlag == "<no --register>"

NoValue == "<--register>"

RegisterArgs == {NoFlag, NoValue} \cup Choices \cup {"bogus"}

RegisterPy == << "#!/usr/bin/env python3" >>

\* a filesystem holding the given files, and the directories above them
MkFs(files) ==
    LET paths == {e[1] : e \in files}
        all == UNION {Ancestors(q) : q \in paths}
    IN  [q \in all |-> IF q \in paths
                       THEN (CHOOSE e \in files : e[1] = q)[2]
                       ELSE Dir]

\* the checkout's scripts tree: none (the script is run from bin), one
\* file, or a tree with a subdirectory
SrcScriptsChoices ==
    { { <<BinScript, File(RegisterPy)>> },
      { <<RepoScript, File(RegisterPy)>> },
      { <<RepoScript, File(RegisterPy)>>,
        <<ScriptsSrc(RepoScript) \o << "common", "util.py" >>, File(<< "import os" >>)>> } }

\* SKILL.md, <skill dir>/CLAUDE.md and <skill dir's parent>/CLAUDE.md of the
\* checkout: none of them; all there, the first two empty; all with
\* content; the inner CLAUDE.md missing
DocumentChoices ==
    { {},
      { <<SkillFile(RepoScript), File(<<>>)>>,
        <<ClaudeCandidates(RepoScript)[1], File(<<>>)>>,
        <<ClaudeCandidates(RepoScript)[2], File(<< "repository instructions" >>)>> },
      { <<SkillFile(RepoScript), File(<< "name: ios-simulator-skill" >>)>>,
        <<ClaudeCandidates(RepoScript)[1], File(<< "skill instructions" >>)>>,
        <<ClaudeCandidates(RepoScript)[2], File(<< "repository instructions" >>)>> },
      { <<SkillFile(RepoScript), File(<< "name: ios-simulator-skill" >>)>>,
        <<ClaudeCandidates(RepoScript)[2], File(<< "repository instructions" >>)>> } }

\* the project: with an earlier installation (a stale script in it) and an
\* old workflow; with files where the tool wants directories.  The other
\* target, tmp/case1, does not exist yet.
ProjChoices ==
    { { <<Join(Proj, "README.md"), File(<< "my project" >>)>>,
        <<Join(SkillDir(Proj), "SKILL.md"), File(<< "name: old skill" >>)>>,
        <<Join(SkillDir(Proj), "CLAUDE.md"), File(<< "old instructions" >>)>>,
        <<InstalledScript, File(RegisterPy)>>,
        <<Join(ScriptsDst(Proj), "old.py"), File(<< "stale" >>)>>,
        <<WorkflowFile(Proj), File(<< "old workflow" >>)>> },
      { <<Join(Proj, "README.md"), File(<< "my project" >>)>>,
        <<Join(Proj, ".claude"), File(<< "not a directory" >>)>>,
        <<Join(Proj, ".agent"), File(<< "not a directory" >>)>> },
      { <<Join(Proj, "README.md"), File(<< "my project" >>)>>,
        <<ScriptsDst(Proj), File(<< "not a directory" >>)>>,
        <<WorkflowFile(Proj) \o << "x" >>, File(<< "inside a directory" >>)>> } }

InitialFilesystems ==
    { MkFs(a \cup b \cup c) :
        a \in SrcScriptsChoices, b \in DocumentChoices, c \in ProjChoices }

NoStep == "<none>"

NoPrev == [kind |-> "other", file |-> <<>>, target |-> <<>>, exitCode |-> 0,
           envFault |-> FALSE]

Init ==
    /\ fs \in InitialFilesystems
    /\ pc = "idle"
    /\ file = <<>>
    /\ argv = [register |-> NoFlag, target |-> <<>>]
    /\ args = [register |-> None, target |-> <<>>]
    /\ stdout = <<>>
    /\ reads = <<>>
    /\ steps = <<>>
    /\ raised = NoStep
    /\ exitCode = 0
    /\ envFault = FALSE
    /\ pre = fs
    /\ prev = NoPrev
    /\ nruns = 0

-----------------------------------------------------------------------------
(* Running the tool                                                        *)

\* what the next run keeps of this one: a code-assistant registration is
\* remembered with its script, target and outcome
Summary ==
    IF pc = "exited" /\ args.register = "code"
    THEN [kind |-> "code", file |-> file, target |-> args.target,
          exitCode |-> exitCode, envFault |-> envFault]
    ELSE NoPrev

\* python <script> [--register [r]] --target t
Invoke(script, r, t) ==
    /\ pc \in {"idle", "exited"}
    /\ nruns < MaxRuns
    /\ IsFile(fs, script)
    /\ file' = script
    /\ argv' = [register |-> r, target |-> t]
    /\ args' = [register |-> None, target |-> <<>>]
    /\ pc' = "parse"
    /\ stdout' = <<>>
    /\ reads' = <<>>
    /\ steps' = <<>>
    /\ raised' = NoStep
    /\ exitCode' = 0
    /\ envFault' = FALSE
    /\ pre' = fs
    /\ prev' = Summary
    /\ nruns' = nruns + 1
    /\ UNCHANGED fs

\* sys.exit(code), printing the texts first
Exit(code, texts) ==
    /\ pc' = "exited"
    /\ exitCode' = code
    /\ stdout' = stdout \o texts
    /\ UNCHANGED <<fs, file, argv, args, reads, steps, raised, envFault, pre, prev, nruns>>

\* the bug of catching the error and reporting success
RaiseExitZero(step, left, byEnv) ==
    /\ fs' = left
    /\ pc' = "exited"
    /\ exitCode' = 0
    /\ raised' = step
    /\ envFault' = byEnv
    /\ steps' = Append(steps, step)
    /\ UNCHANGED <<file, argv, args, stdout, pre, prev, nruns>>

\* an OSError leaves the step: nothing catches it, the interpreter prints
\* the traceback and exits with status 1
Raise(step, left, byEnv) ==
    /\ fs' = left
    /\ pc' = "exited"
    /\ exitCode' = 1
    /\ raised' = step
    /\ envFault' = byEnv
    /\ steps' = Append(steps, step)
    /\ UNCHANGED <<file, argv, args, stdout, pre, prev, nruns>>

\* a step completes and control moves on
Done(step, result, texts, next) ==
    /\ fs' = result
    /\ pc' = next
    /\ stdout' = stdout \o texts
    /\ steps' = Append(steps, step)
    /\ UNCHANGED <<file, argv, args, raised, exitCode, envFault, pre, prev, nruns>>

\* parser.parse_args(): the value of --register is checked against choices
ParsedRegister(r) ==
    IF r = NoFlag THEN None
    ELSE IF r = NoValue THEN RegisterConst
    ELSE r

\* the bug of not giving choices to the parser
ParseAcceptsAll(r) == TRUE

ParseAccepts(r) == ParsedRegister(r) \in Choices \cup {None}

Main_Parse ==
    /\ pc = "parse"
    /\ ParseAccepts(argv.register)
    /\ args' = [register |-> ParsedRegister(argv.register), target |-> argv.target]
    /\ pc' = "main"
    /\ UNCHANGED <<fs, file, argv, stdout, reads, steps, raised, exitCode,
                   envFault, pre, prev, nruns>>

\* argparse rejects the value: usage and error on stderr, exit status 2
Main_ParseError ==
    /\ pc = "parse"
    /\ ~ParseAccepts(argv.register)
    /\ Exit(2, <<>>)

Main_Usage ==
    /\ pc = "main"
    /\ args.register = None
    /\ Exit(0, << UsageText >>)

Main_Help ==
    /\ pc = "main"
    /\ args.register = "help"
    /\ Exit(0, << generate_help_text >>)

Main_Code ==
    /\ pc = "main"
    /\ args.register = "code"
    /\ pc' = "cc_mkdir"
    /\ UNCHANGED <<fs, file, argv, args, stdout, reads, steps, raised, exitCode,
                   envFault, pre, prev, nruns>>

Main_Agent ==
    /\ pc = "main"
    /\ args.register = "agent"
    /\ pc' = "ag_mkdir"
    /\ UNCHANGED <<fs, file, argv, args, stdout, reads, steps, raised, exitCode,
                   envFault, pre, prev, nruns>>

Main_Mcp ==
    /\ pc = "main"
    /\ args.register = "mcp"
    /\ Exit(0, << McpLine1, McpLine2 >>)

Main_Manual ==
    /\ pc = "main"
    /\ args.register = "none"
    /\ Exit(0, << generate_antigravity_workflow >>)

-----------------------------------------------------------------------------
(* register_claude_code                                                    *)

\* get_skill_content(): the text of SKILL.md, "" when it does not exist;
\* read lists the path read_text was called on
get_skill_content(f, script) ==
    LET p == SkillFile(script)
    IN  IF Exists(f, p)
        THEN [read |-> << p >>, raises |-> ReadRaises(f, p),
              text |-> IF ReadRaises(f, p) THEN <<>> ELSE ReadDone(f, p)]
        ELSE [read |-> <<>>, raises |-> FALSE, text |-> <<>>]

\* get_claude_content(): the text of the first candidate that exists
get_claude_content(f, script) ==
    LET p == ClaudeWinner(f, script)
    IN  IF p # NoPath
        THEN [read |-> << p >>, raises |-> ReadRaises(f, p),
              text |-> IF ReadRaises(f, p) THEN <<>> ELSE ReadDone(f, p)]
        ELSE [read |-> <<>>, raises |-> FALSE, text |-> <<>>]

\* the bug of writing the document whether or not it has content
ShouldWriteAlways(text) == TRUE

\* "if skill_content:" / "if claude_content:"
ShouldWrite(text) == text # <<>>

\* the shape of both copies: read the source, write it when it has content
CopyDocument(step, got, dst, created, skipped, next) ==
    /\ reads' = reads \o got.read
    /\ \/ /\ got.raises
          /\ Raise(step, fs, FALSE)
       \/ /\ ~got.raises /\ got.read # <<>>
          /\ Raise(step, fs, TRUE)
       \/ /\ ~got.raises /\ ~ShouldWrite(got.text)
          /\ Done(step, fs, skipped, next)
       \/ /\ ~got.raises /\ ShouldWrite(got.text)
          /\ \/ /\ WriteRaises(fs, dst)
                /\ Raise(step, fs, FALSE)
             \/ /\ ~WriteRaises(fs, dst)
                /\ \E left \in WritePartial(fs, dst) : Raise(step, left, TRUE)
             \/ /\ ~WriteRaises(fs, dst)
                /\ Done(step, WriteDone(fs, dst, got.text), created, next)

\* skill_dir.mkdir(parents=True, exist_ok=True)
EnsureDir(step, dir, next) ==
    /\ UNCHANGED reads
    /\ \/ /\ MkdirRaises(fs, dir)
          /\ Raise(step, fs, FALSE)
       \/ /\ ~MkdirRaises(fs, dir) /\ ~Exists(fs, dir)
          /\ \E left \in MkdirPartial(fs, dir) : Raise(step, left, TRUE)
       \/ /\ ~MkdirRaises(fs, dir)
          /\ Done(step, MkdirDone(fs, dir), <<>>, next)

Cc_Mkdir ==
    /\ pc = "cc_mkdir"
    /\ EnsureDir("mkdir", SkillDir(args.target), "cc_skill")

Cc_Skill ==
    /\ pc = "cc_skill"
    /\ CopyDocument("skill", get_skill_content(fs, file),
                    Join(SkillDir(args.target), "SKILL.md"),
                    << MsgCreatedSkill >>, << MsgWarnSkill >>, "cc_claude")

Cc_Claude ==
    /\ pc = "cc_claude"
    /\ CopyDocument("claude", get_claude_content(fs, file),
                    Join(SkillDir(args.target), "CLAUDE.md"),
                    << MsgCreatedClaude >>, <<>>, "cc_scripts")

\* "if scripts_src.exists():" is false: nothing to copy
Cc_NoScripts ==
    /\ pc = "cc_scripts"
    /\ ~Exists(fs, ScriptsSrc(file))
    /\ pc' = "cc_return"
    /\ UNCHANGED <<fs, file, argv, args, stdout, reads, steps, raised, exitCode,
                   envFault, pre, prev, nruns>>

\* shutil.rmtree(scripts_dst) when the target already has a scripts tree
Cc_Rmtree ==
    /\ pc = "cc_scripts"
    /\ Exists(fs, ScriptsSrc(file))
    /\ NeedsRmtree(fs, ScriptsDst(args.target))
    /\ UNCHANGED reads
    /\ LET dst == ScriptsDst(args.target)
       IN  \/ /\ RmtreeRaises(fs, dst)
              /\ Raise("rmtree", fs, FALSE)
           \/ /\ ~RmtreeRaises(fs, dst)
              /\ \E left \in RmtreePartial(fs, dst) : Raise("rmtree", left, TRUE)
           \/ /\ ~RmtreeRaises(fs, dst)
              /\ Done("rmtree", RmtreeDone(fs, dst), <<>>, "cc_copytree")

\* shutil.copytree(scripts_src, scripts_dst)
Cc_Copytree ==
    /\ \/ pc = "cc_copytree"
       \/ /\ pc = "cc_scripts"
          /\ Exists(fs, ScriptsSrc(file))
          /\ ~NeedsRmtree(fs, ScriptsDst(args.target))
    /\ UNCHANGED reads
    /\ LET src == ScriptsSrc(file)
           dst == ScriptsDst(args.target)
       IN  \/ /\ CopytreeRaises(fs, src, dst)
              /\ Raise("copytree", fs, FALSE)
           \/ /\ ~CopytreeRaises(fs, src, dst)
              /\ \E left \in CopytreePartial(fs, src, dst) : Raise("copytree", left, TRUE)
           \/ /\ ~CopytreeRaises(fs, src, dst)
              /\ Done("copytree", CopytreeDone(fs, src, dst), << MsgCopied >>, "cc_return")

\* return True, and main's sys.exit(0 if success else 1)
Cc_Return ==
    /\ pc = "cc_return"
    /\ Exit(0, << MsgRegistered, MsgRestart >>)

-----------------------------------------------------------------------------
(* register_antigravity                                                    *)

Ag_Mkdir ==
    /\ pc = "ag_mkdir"
    /\ EnsureDir("mkdir", WorkflowDir(args.target), "ag_write")

\* workflow_file.write_text(generate_antigravity_workflow())
Ag_Write ==
    /\ pc = "ag_write"
    /\ UNCHANGED reads
    /\ LET dst == WorkflowFile(args.target)
       IN  \/ /\ WriteRaises(fs, dst)
              /\ Raise("write", fs, FALSE)
           \/ /\ ~WriteRaises(fs, dst)
              /\ \E left \in WritePartial(fs, dst) : Raise("write", left, TRUE)
           \/ /\ ~WriteRaises(fs, dst)
              /\ Done("write", WriteDone(fs, dst, generate_antigravity_workflow),
                      << MsgCreatedWorkflow >>, "ag_return")

Ag_Return ==
    /\ pc = "ag_return"
    /\ Exit(0, << MsgAllowlist >>)

-----------------------------------------------------------------------------

Next ==
    \/ \E script \in ScriptFiles, r \in RegisterArgs, t \in Targets : Invoke(script, r, t)
    \/ Main_Parse
    \/ Main_ParseError
    \/ Main_Usage
    \/ Main_Help
    \/ Main_Code
    \/ Main_Agent
    \/ Main_Mcp
    \/ Main_Manual
    \/ Cc_Mkdir
    \/ Cc_Skill
    \/ Cc_Claude
    \/ Cc_NoScripts
    \/ Cc_Rmtree
    \/ Cc_Copytree
    \/ Cc_Return
    \/ Ag_Mkdir
    \/ Ag_Write
    \/ Ag_Return

Spec == Init /\ [][Next]_vars

TypeOK ==
    /\ WellFormed(fs)
    /\ pc \in {"idle", "parse", "main", "cc_mkdir", "cc_skill", "cc_claude", "cc_scripts",
               "cc_copytree", "cc_return", "ag_mkdir", "ag_write", "ag_return", "exited"}
    /\ nruns \in 0..MaxRuns

-----------------------------------------------------------------------------
(* Properties.  The paths the specification names are spelled out here.    *)

Range(s) == {s[i] : i \in DOMAIN s}

Exited == pc = "exited"

CodeRun == pc \notin {"idle", "parse"} /\ args.register = "code"

AgentRun == pc \notin {"idle", "parse"} /\ args.register = "agent"

\* the node at a path, absent included
Node(f, p) == IF p \in DOMAIN f THEN << f[p] >> ELSE <<>>

\* the paths at which two filesystems differ
Changed(f, g) == {p \in DOMAIN f \cup DOMAIN g : Node(f, p) # Node(g, p)}

\* a tree as the set of its nodes, named relative to its root
RelTree(f, root) == {<< SubSeq(q, Len(root) + 1, Len(q)), f[q] >> : q \in Subtree(f, root)}

TargetSkillDir == args.target \o << ".claude", "skills", "ios-sim" >>

TargetSkillMd == TargetSkillDir \o << "SKILL.md" >>

TargetClaudeMd == TargetSkillDir \o << "CLAUDE.md" >>

TargetScripts == TargetSkillDir \o << "scripts" >>

TargetWorkflows == args.target \o << ".agent", "workflows" >>

TargetWorkflowFile == TargetWorkflows \o << "ios-simulator-skill.md" >>

SourceDir == SubSeq(file, 1, Len(file) - 2)

SourceSkillMd == SourceDir \o << "SKILL.md" >>

SourceClaude1 == SourceDir \o << "CLAUDE.md" >>

SourceClaude2 == SubSeq(SourceDir, 1, Len(SourceDir) - 1) \o << "CLAUDE.md" >>

SourceScripts == SourceDir \o << "scripts" >>

\* the run before this one was the same code-assistant registration (same
\* script, same target), and the environment refused neither
SameCodeRunTwice ==
    /\ Exited /\ CodeRun
    /\ prev.kind = "code" /\ prev.file = file /\ prev.target = args.target
    /\ ~prev.envFault /\ ~envFault

\* C1: running the code-assistant registration twice in succession, from the
\* same source and on the same target, leaves the filesystem as the first
\* run left it, and the second run succeeds whenever the first did.
C1_Idempotent ==
    SameCodeRunTwice =>
        /\ fs = pre
        /\ prev.exitCode = 0 => exitCode = 0

\* a second successful run that removed and copied the scripts tree again
C1_Witness ==
    /\ SameCodeRunTwice
    /\ prev.exitCode = 0 /\ exitCode = 0
    /\ steps = << "mkdir", "skill", "claude", "rmtree", "copytree" >>
    /\ MsgCreatedSkill \in Range(stdout)

\* the source documents and the source scripts tree, as a run finds them
SourceOf(f) ==
    << Node(f, SourceSkillMd), Node(f, SourceClaude1), Node(f, SourceClaude2),
       RelTree(f, SourceScripts) >>

\* C2: no step of the code-assistant registration removes or changes the
\* source SKILL.md, the source CLAUDE.md or a file of the source scripts
\* tree, whatever the target directory (runs the environment refused aside).
C2_SourceReadOnly ==
    (CodeRun /\ ~envFault) => SourceOf(fs) = SourceOf(pre)

SourceSkillAbsent == ~Exists(pre, SourceSkillMd)

\* C3 as claimed: with the source SKILL.md absent, a registration that exits 0
\* leaves <target>/.claude/skills/ios-sim/SKILL.md absent, whatever the
\* target held before.
C3_SkillAbsentAfterwards ==
    (Exited /\ CodeRun /\ SourceSkillAbsent /\ exitCode = 0)
        => ~Exists(fs, TargetSkillMd)

\* C3 as amended: with the source SKILL.md absent the SKILL.md step only
\* warns: it does not raise, and <target>/.claude/skills/ios-sim/SKILL.md
\* stays as it was before the run; the CLAUDE.md step and the scripts copy
\* are still entered, and a run in which no step raises exits 0 with the
\* scripts tree copied.
C3_SkillLeftAsItWas ==
    (CodeRun /\ SourceSkillAbsent /\ "skill" \in Range(steps)) =>
        /\ raised # "skill"
        /\ MsgWarnSkill \in Range(stdout)
        /\ MsgCreatedSkill \notin Range(stdout)
        /\ ~(\E p \in Range(reads) : p = SourceSkillMd)
        /\ Node(fs, TargetSkillMd) = Node(pre, TargetSkillMd)
        /\ pc \notin {"cc_mkdir", "cc_skill"}
        /\ (Exited /\ raised = NoStep) =>
              /\ exitCode = 0
              /\ "claude" \in Range(steps)
              /\ Exists(pre, SourceScripts) =>
                    /\ "copytree" \in Range(steps)
                    /\ RelTree(fs, TargetScripts) = RelTree(pre, SourceScripts)

\* a successful run without a source SKILL.md over a target that has one
C3_Witness ==
    /\ Exited /\ CodeRun /\ SourceSkillAbsent /\ exitCode = 0
    /\ IsFile(fs, TargetSkillMd)
    /\ "copytree" \in Range(steps)
    /\ fs # pre


Informational == argv.register \in {NoFlag, NoValue, "help", "mcp"}

\* C5: a run with --register help, --register without a value, --register mcp
\* or no --register never enters a registration, leaves the filesystem as
\* it found it, and exits with status 0.
C5_InformationalModes ==
    (pc # "idle" /\ Informational) =>
        /\ pc \in {"parse", "main", "exited"}
        /\ steps = <<>>
        /\ fs = pre
        /\ Exited => exitCode = 0

\* manual mode has printed the workflow and exited, after an earlier run
C5_Witness ==
    /\ Exited /\ argv.register = NoValue /\ exitCode = 0
    /\ stdout = << generate_antigravity_workflow >>
    /\ nruns = 2

\* C6 as claimed: --register accepts code, agent, help and mcp (and no
\* value); a run with any other value exits with a non-zero status.
C6_OnlyFourValues ==
    (Exited /\ argv.register \notin {NoFlag, NoValue, "code", "agent", "help", "mcp"})
        => exitCode # 0

AcceptedValues == {"none", "code", "agent", "help", "mcp"}

\* C6 as amended: --register accepts none, code, agent, help and mcp (none,
\* like no value, is manual mode); a run with any other value ends in the
\* parser with exit status 2, before anything is printed, before a
\* registration is dispatched and with the filesystem untouched, and a run
\* with an accepted value never ends with status 2.
C6_ValidatedBeforeSideEffects ==
    /\ (pc # "idle" /\ argv.register \notin {NoFlag, NoValue} \cup AcceptedValues) =>
          /\ pc \in {"parse", "exited"}
          /\ Exited => exitCode = 2
          /\ steps = <<>> /\ stdout = <<>> /\ fs = pre
    /\ (Exited /\ argv.register \in {NoFlag, NoValue} \cup AcceptedValues) =>
          exitCode # 2
    /\ (Exited /\ argv.register = "none") =>
          exitCode = 0 /\ stdout = << generate_antigravity_workflow >>

\* a rejected value
C6_Witness ==
    Exited /\ argv.register = "bogus" /\ exitCode = 2 /\ fs = pre

C8_ScriptsReplaced ==
    (Exited /\ CodeRun /\ exitCode = 0 /\ Exists(pre, SourceScripts)) =>
        /\ RelTree(fs, TargetScripts) = RelTree(pre, SourceScripts)
        /\ RelTree(fs, SourceScripts) = RelTree(pre, SourceScripts)

\* a tree with a subdirectory has replaced a tree with a stale file
C8_Witness ==
    /\ Exited /\ CodeRun /\ exitCode = 0
    /\ IsFile(pre, TargetScripts \o << "old.py" >>)
    /\ ~Exists(fs, TargetScripts \o << "old.py" >>)
    /\ IsFile(fs, TargetScripts \o << "common", "util.py" >>)

\* the step sequences of a registration in which every step completed
CompleteRuns ==
    { << "mkdir", "skill", "claude" >>,
      << "mkdir", "skill", "claude", "copytree" >>,
      << "mkdir", "skill", "claude", "rmtree", "copytree" >>,
      << "mkdir", "write" >> }

\* C9: a step that raises is the last step of its run: the run has exited
\* with status 1, the step was entered once and nothing was entered after
\* it; a registration that exits with status 0 raised nowhere and entered
\* every step of a complete run; a step whose call must fail on the
\* filesystem at hand is never left for the next one.
C9_FailureAborts ==
    /\ raised # NoStep =>
          /\ Exited /\ exitCode = 1
          /\ steps[Len(steps)] = raised
          /\ Cardinality({i \in DOMAIN steps : steps[i] = raised}) = 1
    /\ (Exited /\ (CodeRun \/ AgentRun)) =>
          /\ exitCode \in {0, 1}
          /\ exitCode = 0 <=> raised = NoStep
          /\ exitCode = 0 => steps \in CompleteRuns
    /\ (CodeRun /\ pc \notin {"main", "cc_mkdir", "exited"}) => IsDir(fs, TargetSkillDir)
    /\ (AgentRun /\ pc \notin {"main", "ag_mkdir", "exited"}) => IsDir(fs, TargetWorkflows)
    /\ pc = "ag_return" => IsFile(fs, TargetWorkflowFile)
    /\ pc = "cc_copytree" => ~Exists(fs, TargetScripts)
    /\ (pc = "cc_return" /\ "copytree" \in Range(steps)) => IsDir(fs, TargetScripts)

\* the removal of a scripts path that is a file has raised, after three
\* completed steps
C9_Witness ==
    /\ Exited /\ CodeRun /\ exitCode = 1
    /\ raised = "rmtree" /\ ~envFault
    /\ steps = << "mkdir", "skill", "claude", "rmtree" >>

\* the candidate the specification's search picks, on the filesystem the run found
FirstExistingClaude ==
    IF Exists(pre, SourceClaude1) THEN SourceClaude1
    ELSE IF Exists(pre, SourceClaude2) THEN SourceClaude2
    ELSE NoPath

ClaudeHasContent ==
    FirstExistingClaude # NoPath /\ pre[FirstExistingClaude].text # <<>>

\* C10: once the CLAUDE.md step of a code-assistant registration has
\* completed, <target>/.claude/skills/ios-sim/CLAUDE.md was written exactly
\* when the first existing candidate (<skill dir>/CLAUDE.md, then
\* <skill dir's parent>/CLAUDE.md) has content, and then holds that content;
\* otherwise it is as the run found it and nothing was printed for it; no
\* candidate but the first existing one was read.
C10_ClaudeSearch ==
    (CodeRun /\ "claude" \in Range(steps) /\ raised # "claude") =>
        /\ MsgCreatedClaude \in Range(stdout) <=> ClaudeHasContent
        /\ ClaudeHasContent =>
              /\ IsFile(fs, TargetClaudeMd)
              /\ fs[TargetClaudeMd].text = pre[FirstExistingClaude].text
        /\ ~ClaudeHasContent =>
              /\ Node(fs, TargetClaudeMd) = Node(pre, TargetClaudeMd)
              /\ pc = "cc_scripts" => Len(stdout) = 1
        /\ \A p \in Range(reads) :
              p \in {SourceClaude1, SourceClaude2} => p = FirstExistingClaude
        /\ FirstExistingClaude # NoPath => FirstExistingClaude \in Range(reads)

\* the second candidate was read and written, the first not existing
C10_Witness ==
    /\ CodeRun /\ pc = "cc_scripts"
    /\ SourceClaude2 \in Range(reads)
    /\ ~Exists(pre, SourceClaude1)
    /\ MsgCreatedClaude \in Range(stdout)
    /\ fs[TargetClaudeMd].text = pre[SourceClaude2].text

====
